---------------------------- MODULE Spec2Model ----------------------------
(***************************************************************************)
(* fblib/networks/classification/se_mobilenet_v2.py                        *)
(*                                                                         *)
(* Two specifications over one set of variables:                           *)
(*   Spec      construction of SEMobileNetV2 / SEMobileNetV2Features and   *)
(*             of a single InvertedResidual block, and their forward pass  *)
(*             (tensors are followed by shape and by the operation that    *)
(*             produced them);                                             *)
(*   SpecLoad  the factory se_mobilenet_v2: construction, initialization,  *)
(*             checkpoint retrieval, key normalization, load_state_dict.   *)
(*                                                                         *)
(* torch is a library the file calls.  Its layers are modelled by what     *)
(* they do to shapes and by the checks their constructors make.  One       *)
(* behaviour differs between torch releases: torch.nn.init on a weight     *)
(* whose fan-in is 0 raises ZeroDivisionError in older releases and is a   *)
(* no-op (with a warning) in newer ones.  The variable args.zero_ok holds  *)
(* which of the two the installed library does.                            *)
(***************************************************************************)
EXTENDS Integers, Sequences, FiniteSets, TLC

VARIABLES
    pc,             \* position of the construction / forward scenario
    args,           \* arguments of the constructor call
    input_channel,  \* local input_channel of SEMobileNetV2.__init__
    last_channel,   \* self.last_channel
    features,       \* self.features, a sequence of modules
    classifier,     \* self.classifier, a sequence of layers
    loop,           \* <<index into interverted_residual_setting, i>>
    training,       \* nn.Module.training of the object built
    image,          \* the input batch forward was called on
    x,              \* tensor flowing through forward
    fi,             \* index of the next module of self.features
    result,         \* what forward returned
    lpc,            \* position inside se_mobilenet_v2
    largs,          \* arguments of se_mobilenet_v2
    params,         \* state of the model: parameter name -> value
    checkpoint,     \* the checkpoint's model_state, an ordered mapping
    new_state_dict, \* the mapping handed to load_state_dict
    returned,       \* TRUE once se_mobilenet_v2 has returned the model
    initCount,      \* number of runs of _initialize_weights
    fetchCount,     \* number of accesses to a checkpoint source
    source          \* the checkpoint source accessed: "url", "file" or "none"

netvars == <<pc, args, input_channel, last_channel, features, classifier,
             loop, training, image, x, fi, result>>
loadvars == <<lpc, largs, params, checkpoint, new_state_dict, returned,
              initCount, fetchCount, source>>
vars == <<netvars, loadvars>>

-----------------------------------------------------------------------------
(* Bounds of the model *)

MaxBatch == 2
MaxDim == 2
WDen == 16
MaxCkpt == 5

BatchSizes == 1..MaxBatch
\* width_mult = wnum / WDen; chosen so that every stage width is hit below,
\* at and above the squeeze-and-excitation reduction factor
WidthNums == {0, 1, 2, WDen \div 4, WDen, WDen + WDen \div 2}
InputSizes == {224, 100, 16}
NClasses == {1, 1000}
LastChannels == {1280, 64, 0}
ImageDims == {224, 32}
BlockChannels == {3, 4, 8}
BlockStrides == 0..3
ExpandRatios == {1, 6}
BlockDims == 1..MaxDim

-----------------------------------------------------------------------------
(* torch layers: constructors *)

Conv2d(inp, oup, k, stride, pad, groups) ==
    [op |-> "conv", inp |-> inp, oup |-> oup, k |-> k, stride |-> stride,
     pad |-> pad, groups |-> groups]

BatchNorm2d(ch) ==
    [op |-> "bn", inp |-> ch, oup |-> ch, k |-> 0, stride |-> 0, pad |-> 0,
     groups |-> 0]

Linear(inp, oup) ==
    [op |-> "linear", inp |-> inp, oup |-> oup, k |-> 0, stride |-> 0,
     pad |-> 0, groups |-> 0]

Pointwise(name) ==
    [op |-> name, inp |-> 0, oup |-> 0, k |-> 0, stride |-> 0, pad |-> 0,
     groups |-> 0]

ReLU6 == Pointwise("relu6")
Sigmoid == Pointwise("sigmoid")
Dropout == Pointwise("dropout")

\* fan-in of a layer's weight as torch.nn.init computes it
FanIn(l) ==
    IF l.op = "conv" THEN (l.inp \div l.groups) * l.k * l.k ELSE l.inp

\* The layer's constructor returns: groups must be positive and divide the
\* channel counts; a weight of fan-in 0 is initialized only where the
\* library treats zero-element tensors as a no-op.
LayerAccepted(l, zero_ok) ==
    CASE l.op = "conv" ->
            /\ l.groups > 0
            /\ l.inp % l.groups = 0
            /\ l.oup % l.groups = 0
            /\ (zero_ok \/ FanIn(l) > 0)
      [] l.op = "linear" -> zero_ok \/ l.inp > 0
      [] OTHER -> TRUE

AllAccepted(layers, zero_ok) ==
    \A j \in 1..Len(layers) : LayerAccepted(layers[j], zero_ok)

-----------------------------------------------------------------------------
(* Modules of the file *)

NoSE == [channel |-> 0, hidden |-> 0, fc |-> <<>>]

Sequential(layers) ==
    [kind |-> "seq", inp |-> 0, oup |-> 0, stride |-> 0, expand_ratio |-> 0,
     hidden_dim |-> 0, use_res_connect |-> FALSE, conv |-> layers,
     se |-> NoSE]

conv_bn(inp, oup, stride) ==
    Sequential(<<Conv2d(inp, oup, 3, stride, 1, 1), BatchNorm2d(oup), ReLU6>>)

conv_1x1_bn(inp, oup) ==
    Sequential(<<Conv2d(inp, oup, 1, 1, 0, 1), BatchNorm2d(oup), ReLU6>>)

SEHiddenHalved(channel, reduction) == channel \div (2 * reduction)

\* channel // reduction
SEHidden(channel, reduction) == channel \div reduction

SEMobile(channel, reduction) ==
    [channel |-> channel,
     hidden |-> SEHidden(channel, reduction),
     fc |-> <<Linear(channel, SEHidden(channel, reduction)), ReLU6,
              Linear(SEHidden(channel, reduction), channel), Sigmoid>>]

StrideOnlyResConnect(stride, inp, oup) == stride = 1

\* self.use_res_connect = self.stride == 1 and inp == oup
UseResConnect(stride, inp, oup) == stride = 1 /\ inp = oup

DwConvUnstrided(hidden_dim, stride) ==
    Conv2d(hidden_dim, hidden_dim, 3, 1, 1, hidden_dim)

\* the depthwise 3x3 convolution of the block, which carries the stride
DwConv(hidden_dim, stride) ==
    Conv2d(hidden_dim, hidden_dim, 3, stride, 1, hidden_dim)

\* round(inp * expand_ratio), expand_ratio an integer
HiddenDim(inp, expand_ratio) == inp * expand_ratio

BlockConv(inp, oup, stride, expand_ratio) ==
    LET hidden_dim == HiddenDim(inp, expand_ratio) IN
    IF expand_ratio = 1
    THEN <<DwConv(hidden_dim, stride), BatchNorm2d(hidden_dim), ReLU6,
           Conv2d(hidden_dim, oup, 1, 1, 0, 1), BatchNorm2d(oup)>>
    ELSE <<Conv2d(inp, hidden_dim, 1, 1, 0, 1), BatchNorm2d(hidden_dim), ReLU6,
           DwConv(hidden_dim, stride), BatchNorm2d(hidden_dim), ReLU6,
           Conv2d(hidden_dim, oup, 1, 1, 0, 1), BatchNorm2d(oup)>>

\* assert stride in [1, 2]
StrideOK(stride) == stride \in {1, 2}

InvertedResidual(inp, oup, stride, expand_ratio) ==
    [kind |-> "block", inp |-> inp, oup |-> oup, stride |-> stride,
     expand_ratio |-> expand_ratio,
     hidden_dim |-> HiddenDim(inp, expand_ratio),
     use_res_connect |-> UseResConnect(stride, inp, oup),
     conv |-> BlockConv(inp, oup, stride, expand_ratio),
     se |-> SEMobile(oup, 4)]

\* InvertedResidual.__init__ returns instead of raising
InvertedResidualBuilt(inp, oup, stride, expand_ratio, zero_ok) ==
    /\ StrideOK(stride)
    /\ AllAccepted(BlockConv(inp, oup, stride, expand_ratio), zero_ok)
    /\ AllAccepted(SEMobile(oup, 4).fc, zero_ok)

-----------------------------------------------------------------------------
(* Forward: tensors are [ok, shape, op]; a raised error is ok = FALSE *)

Raised == [ok |-> FALSE, shape |-> <<>>, op |-> "raise"]
Tensor(shape, op) == [ok |-> TRUE, shape |-> shape, op |-> op]

\* output size of a convolution along one spatial axis
ConvOut(h, l) == ((h + 2 * l.pad - l.k) \div l.stride) + 1

LayerForward(l, t, train) ==
    IF ~t.ok THEN Raised
    ELSE CASE l.op = "conv" ->
                IF \/ Len(t.shape) # 4
                   \/ t.shape[2] # l.inp
                   \/ t.shape[3] + 2 * l.pad < l.k
                   \/ t.shape[4] + 2 * l.pad < l.k
                THEN Raised
                ELSE Tensor(<<t.shape[1], l.oup, ConvOut(t.shape[3], l),
                              ConvOut(t.shape[4], l)>>, "conv")
           [] l.op = "bn" ->
                IF \/ Len(t.shape) # 4
                   \/ t.shape[2] # l.inp
                   \/ (train /\ t.shape[1] * t.shape[3] * t.shape[4] = 1)
                THEN Raised
                ELSE Tensor(t.shape, "bn")
           [] l.op = "linear" ->
                IF Len(t.shape) # 2 \/ t.shape[2] # l.inp
                THEN Raised
                ELSE Tensor(<<t.shape[1], l.oup>>, "linear")
           [] OTHER -> Tensor(t.shape, l.op)

RECURSIVE SeqForward(_, _, _)
SeqForward(layers, t, train) ==
    IF layers = <<>> THEN t
    ELSE SeqForward(Tail(layers), LayerForward(Head(layers), t, train), train)

\* SEMobile.forward: x * fc(avg_pool(x).view(b, c)).view(b, c, 1, 1)
SEForward(se, t, train) ==
    IF ~t.ok \/ Len(t.shape) # 4 THEN Raised
    ELSE LET y == SeqForward(se.fc, Tensor(<<t.shape[1], t.shape[2]>>, "view"),
                             train)
         IN IF y.ok /\ y.shape = <<t.shape[1], t.shape[2]>>
            THEN Tensor(t.shape, "mul")
            ELSE Raised

\* InvertedResidual.forward
BlockForward(b, t, train) ==
    LET out == SEForward(b.se, SeqForward(b.conv, t, train), train) IN
    IF b.use_res_connect
    THEN IF out.ok /\ out.shape = t.shape
         THEN Tensor(out.shape, "add")
         ELSE Raised
    ELSE out

ModuleForward(m, t, train) ==
    IF m.kind = "block" THEN BlockForward(m, t, train)
                        ELSE SeqForward(m.conv, t, train)

\* x.mean(3).mean(2)
SpatialMean(t) ==
    IF t.ok /\ Len(t.shape) = 4
    THEN Tensor(<<t.shape[1], t.shape[2]>>, "mean")
    ELSE Raised


-----------------------------------------------------------------------------
(* SEMobileNetV2.__init__ *)

\* t, c, n, s
interverted_residual_setting ==
    <<<<1, 16, 1, 1>>, <<6, 24, 2, 2>>, <<6, 32, 3, 2>>, <<6, 64, 4, 2>>,
      <<6, 96, 3, 1>>, <<6, 160, 3, 2>>, <<6, 320, 1, 1>>>>

\* int(c * width_mult), width_mult = wnum / WDen >= 0
ScaleChannels(c, wnum) == (c * wnum) \div WDen

InputSizeAny(input_size) == TRUE

\* assert input_size % 32 == 0
InputSizeOK(input_size) == input_size % 32 = 0

\* int(last_channel * width_mult) if width_mult > 1.0 else last_channel
LastChannel(last, wnum) ==
    IF wnum > WDen THEN ScaleChannels(last, wnum) ELSE last

StageStrideRepeated(i, s) == s

\* the first block of a stage takes the stage's stride, the others 1
StageStride(i, s) == IF i = 0 THEN s ELSE 1

InputChannelPerStage(inp, oup, i, n) == IF i = n - 1 THEN oup ELSE inp

\* input_channel = output_channel, at the end of every iteration over i
NextInputChannel(inp, oup, i, n) == oup

NoTensor == [ok |-> FALSE, shape |-> <<>>, op |-> "none"]
NoArgs == [n_class |-> 0, input_size |-> 0, wnum |-> 0, last_channel |-> 0,
           variant |-> "none", zero_ok |-> FALSE, inp |-> 0, oup |-> 0,
           stride |-> 0, expand_ratio |-> 0]

NetInit ==
    /\ pc = "idle"
    /\ args = NoArgs
    /\ input_channel = 0
    /\ last_channel = 0
    /\ features = <<>>
    /\ classifier = <<>>
    /\ loop = <<0, 0>>
    /\ training = TRUE
    /\ image = NoTensor
    /\ x = NoTensor
    /\ fi = 0
    /\ result = <<>>

\* lines 110-130: the call, the assertion, the scaled widths, the stem
NewNet ==
    /\ pc = "idle"
    /\ \E n_class \in NClasses, input_size \in InputSizes, wnum \in WidthNums,
          last \in LastChannels, variant \in {"SEMobileNetV2",
          "SEMobileNetV2Features"}, zero_ok \in BOOLEAN :
        /\ args' = [NoArgs EXCEPT !.n_class = n_class,
                      !.input_size = input_size, !.wnum = wnum,
                      !.last_channel = last, !.variant = variant,
                      !.zero_ok = zero_ok]
        /\ IF ~InputSizeOK(input_size)
           THEN /\ pc' = "error"
                /\ UNCHANGED <<input_channel, last_channel, features, loop>>
           ELSE /\ input_channel' = ScaleChannels(32, wnum)
                /\ last_channel' = LastChannel(last, wnum)
                /\ IF AllAccepted(conv_bn(3, ScaleChannels(32, wnum), 2).conv,
                                  zero_ok)
                   THEN /\ features' = <<conv_bn(3, ScaleChannels(32, wnum), 2)>>
                        /\ loop' = <<1, 0>>
                        /\ pc' = "blocks"
                   ELSE /\ pc' = "error"
                        /\ UNCHANGED <<features, loop>>
    /\ UNCHANGED <<classifier, training, image, x, fi, result>>
    /\ UNCHANGED loadvars

\* lines 133-140: one iteration of the inner loop
BuildBlock ==
    /\ pc = "blocks"
    /\ LET st == interverted_residual_setting[loop[1]]
           t == st[1]
           c == st[2]
           n == st[3]
           s == st[4]
           i == loop[2]
           output_channel == ScaleChannels(c, args.wnum)
           stride == StageStride(i, s)
       IN IF InvertedResidualBuilt(input_channel, output_channel, stride, t,
                                   args.zero_ok)
          THEN /\ features' = Append(features,
                      InvertedResidual(input_channel, output_channel, stride, t))
               /\ input_channel' = NextInputChannel(input_channel,
                                                    output_channel, i, n)
               /\ IF i + 1 < n
                  THEN /\ loop' = <<loop[1], i + 1>>
                       /\ pc' = "blocks"
                  ELSE IF loop[1] < Len(interverted_residual_setting)
                       THEN /\ loop' = <<loop[1] + 1, 0>>
                            /\ pc' = "blocks"
                       ELSE /\ loop' = loop
                            /\ pc' = "head"
          ELSE /\ pc' = "error"
               /\ UNCHANGED <<features, input_channel, loop>>
    /\ UNCHANGED <<args, last_channel, classifier, training, image, x, fi,
                   result>>
    /\ UNCHANGED loadvars

\* lines 142-152: the head convolution and the classifier
BuildHead ==
    /\ pc = "head"
    /\ LET head == conv_1x1_bn(input_channel, last_channel)
           cls == <<Dropout, Linear(last_channel, args.n_class)>>
       IN IF AllAccepted(head.conv, args.zero_ok)
             /\ AllAccepted(cls, args.zero_ok)
          THEN /\ features' = Append(features, head)
               /\ classifier' = cls
               /\ pc' = "init"
          ELSE /\ pc' = "error"
               /\ UNCHANGED <<features, classifier>>
    /\ UNCHANGED <<args, input_channel, last_channel, loop, training, image,
                   x, fi, result>>
    /\ UNCHANGED loadvars

\* the Conv2d layers self.modules() yields
ConvLayers ==
    UNION {{features[j].conv[q] : q \in 1..Len(features[j].conv)} :
           j \in 1..Len(features)}

\* lines 154, 162-175: math.sqrt(2. / n) with n = kh * kw * out_channels
\* raises ZeroDivisionError when a convolution has no output channel
InitializeWeights ==
    /\ pc = "init"
    /\ IF \E l \in ConvLayers : l.op = "conv" /\ l.k * l.k * l.oup = 0
       THEN pc' = "error"
       ELSE pc' = "built"
    /\ UNCHANGED <<args, input_channel, last_channel, features, classifier,
                   loop, training, image, x, fi, result>>
    /\ UNCHANGED loadvars


-----------------------------------------------------------------------------
(* A single InvertedResidual block, built and called on its own *)

\* InvertedResidual.__init__, lines 63-96
NewBlock ==
    /\ pc = "idle"
    /\ \E inp \in BlockChannels, oup \in BlockChannels,
          stride \in BlockStrides, t \in ExpandRatios, zero_ok \in BOOLEAN :
        /\ args' = [NoArgs EXCEPT !.variant = "InvertedResidual",
                      !.zero_ok = zero_ok, !.inp = inp, !.oup = oup,
                      !.stride = stride, !.expand_ratio = t]
        /\ IF InvertedResidualBuilt(inp, oup, stride, t, zero_ok)
           THEN /\ features' = <<InvertedResidual(inp, oup, stride, t)>>
                /\ pc' = "blk_built"
           ELSE /\ features' = features
                /\ pc' = "blk_error"
    /\ UNCHANGED <<input_channel, last_channel, classifier, loop, training,
                   image, x, fi, result>>
    /\ UNCHANGED loadvars

\* InvertedResidual.forward, lines 98-106, on an input of any shape
BlockCall ==
    /\ pc = "blk_built"
    /\ \E n \in BatchSizes, c \in BlockChannels, h \in BlockDims,
          w \in BlockDims :
        /\ image' = Tensor(<<n, c, h, w>>, "input")
        /\ x' = image'
        /\ result' = <<BlockForward(features[1], image', training)>>
    /\ pc' = "blk_done"
    /\ UNCHANGED <<args, input_channel, last_channel, features, classifier,
                   loop, training, fi>>
    /\ UNCHANGED loadvars

\* model.eval(), as test_reproduce does before inference (line 252)
Eval ==
    /\ pc \in {"built", "blk_built"}
    /\ training
    /\ training' = FALSE
    /\ UNCHANGED <<pc, args, input_channel, last_channel, features,
                   classifier, loop, image, x, fi, result>>
    /\ UNCHANGED loadvars

-----------------------------------------------------------------------------
(* SEMobileNetV2.forward and SEMobileNetV2Features.forward *)

\* return x            (SEMobileNetV2, line 160)
\* return x, features  (SEMobileNetV2Features, line 191)
ForwardReturn(variant, logits, pooled) ==
    IF variant = "SEMobileNetV2Features" THEN <<logits, pooled>> ELSE <<logits>>

ForwardStart ==
    /\ pc = "built"
    /\ \E n \in BatchSizes, d \in ImageDims :
        image' = Tensor(<<n, 3, d, d>>, "input")
    /\ x' = image'
    /\ fi' = 1
    /\ pc' = "features"
    /\ UNCHANGED <<args, input_channel, last_channel, features, classifier,
                   loop, training, result>>
    /\ UNCHANGED loadvars

\* x = self.features(x): one module of the Sequential
ForwardStep ==
    /\ pc = "features"
    /\ LET y == ModuleForward(features[fi], x, training) IN
        /\ x' = y
        /\ IF ~y.ok THEN /\ pc' = "fwd_error"
                         /\ fi' = fi
           ELSE IF fi = Len(features) THEN /\ pc' = "pool"
                                           /\ fi' = fi
           ELSE /\ pc' = "features"
                /\ fi' = fi + 1
    /\ UNCHANGED <<args, input_channel, last_channel, features, classifier,
                   loop, training, image, result>>
    /\ UNCHANGED loadvars

\* x.mean(3).mean(2), then the classifier and the return; result[2] keeps
\* the tensor the classifier was called on
ForwardTail ==
    /\ pc = "pool"
    /\ LET pooled == SpatialMean(x)
           logits == SeqForward(classifier, pooled, training)
       IN /\ x' = logits
          /\ result' = <<ForwardReturn(args.variant, logits, pooled),
                         pooled>>
          /\ pc' = IF logits.ok THEN "fwd_done" ELSE "fwd_error"
    /\ UNCHANGED <<args, input_channel, last_channel, features, classifier,
                   loop, training, image, fi>>
    /\ UNCHANGED loadvars

Next ==
    \/ NewNet
    \/ BuildBlock
    \/ BuildHead
    \/ InitializeWeights
    \/ NewBlock
    \/ BlockCall
    \/ Eval
    \/ ForwardStart
    \/ ForwardStep
    \/ ForwardTail


-----------------------------------------------------------------------------
(* se_mobilenet_v2: the model's state and the checkpoint                  *)
(*                                                                         *)
(* A key is a sequence of tokens; "module." is the token the file looks    *)
(* for, so that `'module.' in k` and k.replace('module.', '') are what     *)
(* they are on strings: a search and a removal anywhere in the key.        *)

Marker == "module."

BnWeight == <<"features.18.1.", "weight">>
BnBias == <<"features.18.1.", "bias">>
FcBias == <<"classifier.1.", "bias">>

\* a buffer a BatchNorm2d registers next to its parameters
BnRunningMean == <<"features.18.1.", "running_mean">>

\* the names model.state_dict() has, each standing for its kind: the
\* parameters, which _initialize_weights writes, and the buffers
ParamNames == {BnWeight, BnBias, FcBias}
BufferNames == {BnRunningMean}
StateNames == ParamNames \cup BufferNames

ParamKind(name) ==
    CASE name = BnWeight -> "bn.weight"
      [] name = BnBias -> "bn.bias"
      [] name = BnRunningMean -> "bn.running_mean"
      [] OTHER -> "linear.bias"

\* the number of elements the model holds under a name: the batch norm of
\* the head has self.last_channel channels at the default width (lines 127,
\* 143), the classifier n_class biases (line 151)
SizeOf(name, n_class, last) ==
    IF name = FcBias THEN n_class ELSE LastChannel(last, WDen)

InitValue(v) == [src |-> "init", v |-> v]

\* what the layer's own constructor leaves in the parameter
DefaultValue(kind) ==
    CASE kind = "bn.weight" -> [src |-> "default", v |-> 1]
      [] kind = "bn.bias" -> [src |-> "default", v |-> 0]
      [] kind = "bn.running_mean" -> [src |-> "default", v |-> 0]
      [] OTHER -> [src |-> "default_uniform", v |-> 0]

WeightsLeftAtDefault(p) == p

\* _initialize_weights: fill_(1) / zero_() on the weight and bias of a
\* BatchNorm2d, zero_() on the bias of a Linear; buffers are not written
InitializeWeightsOf(p) ==
    [name \in DOMAIN p |->
        CASE ParamKind(name) = "bn.weight" -> InitValue(1)
          [] ParamKind(name) = "bn.bias" -> InitValue(0)
          [] ParamKind(name) = "linear.bias" -> InitValue(0)
          [] OTHER -> p[name]]

DefaultParams == [name \in StateNames |-> DefaultValue(ParamKind(name))]
InitialParams == InitializeWeightsOf(DefaultParams)

\* keys a checkpoint file may hold, in the order a saved state lists them:
\* the model's names, bare and behind the marker, a name with the marker
\* inside it, and a name the model lacks
InnerMarked == <<"features.18.1.", Marker, "weight">>
Stranger == <<"extra.", "weight">>
KeyOrder ==
    <<BnWeight, <<Marker>> \o BnWeight, InnerMarked, <<Marker>> \o InnerMarked,
      BnBias, <<Marker>> \o BnBias, BnRunningMean, <<Marker>> \o BnRunningMean,
      Stranger, FcBias, <<Marker>> \o FcBias>>
KeyUniverse == {KeyOrder[i] : i \in DOMAIN KeyOrder}
KeyRank(k) == CHOOSE i \in DOMAIN KeyOrder : KeyOrder[i] = k

Entry(k, v) == [key |-> k, val |-> v]

\* the tensor the published checkpoint (model_urls: last_channel 1280,
\* 1000 ImageNet classes) holds at place i under key k: its identity and its
\* number of elements
TensorSize(k) ==
    IF \E i \in DOMAIN k : k[i] = "classifier.1."
    THEN 1000 ELSE LastChannel(1280, WDen)
CkptValue(i, k) == [src |-> "checkpoint", v |-> i, size |-> TensorSize(k)]

RECURSIVE Ascending(_)
\* the keys of S in the order of KeyOrder
Ascending(S) ==
    IF S = {} THEN <<>>
    ELSE LET k == CHOOSE m \in S : \A o \in S : KeyRank(m) <= KeyRank(o)
         IN <<k>> \o Ascending(S \ {k})

Reversed(l) == [i \in DOMAIN l |-> l[Len(l) + 1 - i]]

\* the lists of at most n distinct keys: the first key, on which line 213
\* depends, is any key; the keys after it follow in the order of KeyOrder or
\* against it, so that of two keys either may come last
KeyLists(n) ==
    {<<>>} \cup
    UNION {{<<first>> \o Ascending(S), <<first>> \o Reversed(Ascending(S))} :
              <<first, S>> \in
                  {fs \in KeyUniverse \X SUBSET KeyUniverse :
                      fs[1] \notin fs[2] /\ Cardinality(fs[2]) < n}}

\* ordered mappings with distinct keys, at most MaxCkpt entries
Checkpoints ==
    {[i \in DOMAIN l |-> Entry(l[i], CkptValue(i, l[i]))] :
        l \in KeyLists(MaxCkpt)}

Keys(d) == {d[i].key : i \in DOMAIN d}
Lookup(d, k) == d[CHOOSE i \in DOMAIN d : d[i].key = k].val

\* d[k] = v on an OrderedDict: a key already there keeps its place
DictSet(d, k, v) ==
    IF k \in Keys(d)
    THEN [i \in DOMAIN d |-> IF d[i].key = k THEN Entry(k, v) ELSE d[i]]
    ELSE Append(d, Entry(k, v))

\* 'module.' in k
Contains(k) == \E i \in DOMAIN k : k[i] = Marker

KeepKey(k) == k

\* k.replace('module.', '')
Replace(k) == SelectSeq(k, LAMBDA tok : tok # Marker)

RECURSIVE Renamed(_, _)
\* for k, v in checkpoint.items(): new_state_dict[k.replace(...)] = v
Renamed(items, acc) ==
    IF items = <<>> THEN acc
    ELSE Renamed(Tail(items),
                 DictSet(acc, Replace(Head(items).key), Head(items).val))

AnyKeyMarked(ckpt) == \E i \in DOMAIN ckpt : Contains(ckpt[i].key)

\* 'module.' in list(checkpoint.keys())[0]
FirstKeyMarked(ckpt) == Contains(ckpt[1].key)

\* lines 213-219, for a checkpoint with at least one key
HandleDataParallel(ckpt) ==
    IF FirstKeyMarked(ckpt) THEN Renamed(ckpt, <<>>) ELSE ckpt

\* the model object: what it holds under its names, and the arguments that
\* size its head and its classifier
Model(p, n_class, last) ==
    [params |-> p, n_class |-> n_class, last_channel |-> last]

LoadLenient(model, sd) ==
    [params |-> [name \in DOMAIN model.params |->
                    IF name \in Keys(sd) THEN Lookup(sd, name)
                    ELSE model.params[name]],
     missing |-> DOMAIN model.params \ Keys(sd),
     unexpected |-> Keys(sd) \ DOMAIN model.params,
     size_mismatch |-> {},
     raised |-> FALSE]

\* torch.nn.Module.load_state_dict(state_dict), strict, as of torch 0.4:
\* every module goes through its own parameters and buffers; a name the
\* state_dict lacks is recorded as missing; an entry of another size is
\* recorded as an error and not copied; every other entry is copied; the
\* unexpected keys are collected; RuntimeError is raised after all that, if
\* anything was recorded
load_state_dict(model, sd) ==
    LET p == model.params
        missing == DOMAIN p \ Keys(sd)
        unexpected == Keys(sd) \ DOMAIN p
        size_mismatch ==
            {name \in DOMAIN p \cap Keys(sd) :
                Lookup(sd, name).size
                    # SizeOf(name, model.n_class, model.last_channel)}
    IN [params |-> [name \in DOMAIN p |->
                       IF name \in Keys(sd) \ size_mismatch
                       THEN Lookup(sd, name) ELSE p[name]],
        missing |-> missing,
        unexpected |-> unexpected,
        size_mismatch |-> size_mismatch,
        raised |-> missing # {} \/ unexpected # {} \/ size_mismatch # {}]

NoLoadArgs ==
    [pretrained |-> FALSE, features |-> FALSE, n_class |-> 1000,
     last_channel |-> 1280, remote |-> FALSE]

\* How far SEMobileNetV2(n_class=n_class, last_channel=last) gets
\* with the default input_size and width_mult, where the stem and the 17
\* blocks are built: "layers" when a layer of the head or of the classifier
\* refuses its widths (lines 143, 151), "init" when _initialize_weights
\* divides by the zero output width of the head convolution (line 166),
\* "built" otherwise
Constructed(n_class, last, zero_ok) ==
    LET head == conv_1x1_bn(ScaleChannels(320, WDen),
                            LastChannel(last, WDen))
        cls == <<Dropout, Linear(LastChannel(last, WDen), n_class)>>
    IN IF ~(AllAccepted(head.conv, zero_ok) /\ AllAccepted(cls, zero_ok))
       THEN "layers"
       ELSE IF \E j \in 1..Len(head.conv) :
                  /\ head.conv[j].op = "conv"
                  /\ head.conv[j].k * head.conv[j].k * head.conv[j].oup = 0
            THEN "init"
            ELSE "built"

LoadInit ==
    /\ lpc = "call"
    /\ largs = NoLoadArgs
    /\ params = DefaultParams
    /\ checkpoint = <<>>
    /\ new_state_dict = <<>>
    /\ returned = FALSE
    /\ initCount = 0
    /\ fetchCount = 0
    /\ source = "none"

\* lines 194-200: the model is constructed with the default input_size and
\* width_mult and the caller's n_class and last_channel; the constructor
\* ends in self._initialize_weights() (line 154).  An error of the
\* constructor leaves se_mobilenet_v2 before any source is read; the head's
\* batch norm and the classifier come after the head convolution in
\* self.modules(), so they are as constructed when line 166 raises.
Construct ==
    /\ lpc = "call"
    /\ \E pretrained \in BOOLEAN, feat \in BOOLEAN, remote \in BOOLEAN,
          n_class \in NClasses, last \in LastChannels, zero_ok \in BOOLEAN :
        /\ largs' = [pretrained |-> pretrained, features |-> feat,
                     n_class |-> n_class, last_channel |-> last,
                     remote |-> remote]
        /\ LET reached == Constructed(n_class, last, zero_ok) IN
            /\ lpc' = IF reached # "built" THEN "raised_construct"
                      ELSE IF pretrained THEN "retrieve" ELSE "return"
            /\ params' = IF reached = "built"
                         THEN InitializeWeightsOf(DefaultParams)
                         ELSE DefaultParams
            /\ initCount' = IF reached = "layers" THEN initCount
                            ELSE initCount + 1
    /\ UNCHANGED <<checkpoint, new_state_dict, returned, fetchCount, source>>
    /\ UNCHANGED netvars

\* lines 205-210: the source is read; it may be unreachable, unparseable or
\* lack 'model_state', and then the error propagates
Retrieve ==
    /\ lpc = "retrieve"
    /\ fetchCount' = fetchCount + 1
    /\ source' = IF largs.remote THEN "url" ELSE "file"
    /\ \/ /\ lpc' = "raised_retrieve"
          /\ UNCHANGED checkpoint
       \/ /\ checkpoint' \in Checkpoints
          /\ lpc' = "normalize"
    /\ UNCHANGED <<largs, params, new_state_dict, returned, initCount>>
    /\ UNCHANGED netvars

\* lines 213-219; list(checkpoint.keys())[0] raises IndexError on an empty
\* mapping
Normalize ==
    /\ lpc = "normalize"
    /\ IF checkpoint = <<>>
       THEN /\ lpc' = "raised_index"
            /\ UNCHANGED new_state_dict
       ELSE /\ new_state_dict' = HandleDataParallel(checkpoint)
            /\ lpc' = "load"
    /\ UNCHANGED <<largs, params, checkpoint, returned, initCount, fetchCount,
                   source>>
    /\ UNCHANGED netvars

\* line 222
Load ==
    /\ lpc = "load"
    /\ LET r == load_state_dict(
                    Model(params, largs.n_class, largs.last_channel),
                    new_state_dict)
       IN
        /\ params' = r.params
        /\ lpc' = IF r.raised THEN "raised_load" ELSE "return"
    /\ UNCHANGED <<largs, checkpoint, new_state_dict, returned, initCount,
                   fetchCount, source>>
    /\ UNCHANGED netvars

\* line 224
Return ==
    /\ lpc = "return"
    /\ returned' = TRUE
    /\ lpc' = "done"
    /\ UNCHANGED <<largs, params, checkpoint, new_state_dict, initCount,
                   fetchCount, source>>
    /\ UNCHANGED netvars

NextLoad ==
    \/ Construct
    \/ Retrieve
    \/ Normalize
    \/ Load
    \/ Return

-----------------------------------------------------------------------------
(* Specifications *)

Init == NetInit /\ LoadInit

Spec == Init /\ [][Next]_vars

SpecLoad == Init /\ [][NextLoad]_vars


-----------------------------------------------------------------------------
(* Properties: construction and forward (Spec) *)

IsNet == args.variant \in {"SEMobileNetV2", "SEMobileNetV2Features"}
IsBlock == args.variant = "InvertedResidual"
Blocks == {j \in 1..Len(features) : features[j].kind = "block"}
ResidualCase(stride, inp, oup) == stride = 1 /\ inp = oup

\* C1: a block adds its input to the gated output exactly when it was built
\* with stride 1 and inp = oup, whatever the expansion ratio and the input:
\* the flag fixed at construction says so, and the tensor forward returns is
\* the sum in that case and the gated (multiplied) output in every other.
C1_ResidualIffStride1SameWidth ==
    /\ \A j \in Blocks :
          features[j].use_res_connect
              <=> ResidualCase(features[j].stride, features[j].inp,
                               features[j].oup)
    /\ (pc = "blk_done" /\ result[1].ok) =>
          /\ result[1].op = "add"
                <=> ResidualCase(args.stride, args.inp, args.oup)
          /\ result[1].op = "mul"
                <=> ~ResidualCase(args.stride, args.inp, args.oup)
    /\ (pc = "features" /\ fi > 1 /\ features[fi - 1].kind = "block") =>
          (x.op = "add"
              <=> ResidualCase(features[fi - 1].stride, features[fi - 1].inp,
                               features[fi - 1].oup))

C1_Witness ==
    /\ pc = "blk_done"
    /\ result[1].ok
    /\ result[1].op = "add"
    /\ args.expand_ratio = 6

\* C7 as claimed: the output shape of a block equals its input shape in the
\* residual case and in no other.
C7_ShapeKeptOnlyInResidualCase ==
    (pc = "blk_done" /\ result[1].ok) =>
        (result[1].shape = image.shape
            <=> ResidualCase(args.stride, args.inp, args.oup))

\* C7 amended: the output shape equals the input shape in the residual case
\* and, outside it, only for inp = oup, stride 2 and a 1x1 input map, which
\* the stride-2 convolution (kernel 3, padding 1) maps to 1x1 again; in
\* every other case the shape differs in channels or in spatial size.
C7_ShapeKeptIffSameWidthAndSameMap ==
    (pc = "blk_done" /\ result[1].ok) =>
        /\ result[1].shape = image.shape
              <=> /\ args.inp = args.oup
                  /\ \/ args.stride = 1
                     \/ image.shape[3] = 1 /\ image.shape[4] = 1
        /\ result[1].shape[1] = image.shape[1]
        /\ result[1].shape[2] = args.oup
        /\ args.stride = 2 /\ image.shape[3] > 1
              => result[1].shape[3] < image.shape[3]

C7_Witness ==
    /\ pc = "blk_done"
    /\ result[1].ok
    /\ ~ResidualCase(args.stride, args.inp, args.oup)
    /\ result[1].shape = image.shape

\* C5: the layers are channel-consistent from the stem to the classifier:
\* each module's output width is the next module's input width, inside a
\* block as well, the head ends at last_channel and the classifier starts
\* there; a built network has 17 blocks between the stem and the head.
Channelled(m) == SelectSeq(m.conv, LAMBDA l : l.op \in {"conv", "bn"})
ModuleIn(m) == Channelled(m)[1].inp
ModuleOut(m) == Channelled(m)[Len(Channelled(m))].oup

C5_ChannelsConsistent ==
    IsNet =>
        /\ \A j \in 1..Len(features) - 1 :
              ModuleOut(features[j]) = ModuleIn(features[j + 1])
        /\ \A j \in Blocks :
              /\ features[j].inp = ModuleIn(features[j])
              /\ features[j].oup = ModuleOut(features[j])
              /\ features[j].se.channel = features[j].oup
              /\ \A q \in 1..Len(Channelled(features[j])) - 1 :
                    Channelled(features[j])[q].oup
                        = Channelled(features[j])[q + 1].inp
        /\ pc \in {"init", "built", "features", "pool", "fwd_done",
                   "fwd_error"} =>
              /\ Len(features) = 19
              /\ Blocks = 2..18
              /\ ModuleIn(features[1]) = 3
              /\ ModuleOut(features[19]) = last_channel
              /\ classifier[2].inp = last_channel
              /\ classifier[2].oup = args.n_class

C5_Witness ==
    /\ pc = "built"
    /\ args.wnum > WDen
    /\ Cardinality(Blocks) = 17
    /\ ModuleOut(features[18]) = ModuleIn(features[19])

\* C6: on a batch of N images of 3x224x224 the forward pass never fails,
\* the map entering the pooling is 7x7 with last_channel channels, the
\* logits have shape (N, n_class), and the feature variant returns with
\* them the pooled (N, last_channel) tensor the classifier was called on.
C6_ForwardShapes ==
    (IsNet /\ image.ok /\ image.shape[3] = 224) =>
        /\ pc # "fwd_error"
        /\ pc = "pool" =>
              x.shape = <<image.shape[1], last_channel, 7, 7>>
        /\ pc = "fwd_done" =>
              /\ result[1][1].ok
              /\ result[1][1].shape = <<image.shape[1], args.n_class>>
              /\ result[2].shape = <<image.shape[1], last_channel>>
              /\ args.variant = "SEMobileNetV2" => Len(result[1]) = 1
              /\ args.variant = "SEMobileNetV2Features" =>
                    /\ Len(result[1]) = 2
                    /\ result[1][2] = result[2]
                    /\ result[1][2].op = "mean"

C6_Witness ==
    /\ pc = "fwd_done"
    /\ image.shape = <<MaxBatch, 3, 224, 224>>
    /\ args.variant = "SEMobileNetV2Features"
    /\ args.n_class = 1000
    /\ result[1][2].shape = <<MaxBatch, 1280>>

\* C8: a network whose input_size is not a multiple of 32 is rejected
\* before any layer exists, a block whose stride is neither 1 nor 2 is
\* rejected, and whatever was built has input_size divisible by 32 and
\* only strides 1 and 2 in its blocks.
C8_InvalidConfigurationRejected ==
    /\ (IsNet /\ args.input_size % 32 # 0) =>
          pc = "error" /\ features = <<>> /\ classifier = <<>>
    /\ (IsBlock /\ args.stride \notin {1, 2}) =>
          pc = "blk_error" /\ features = <<>>
    /\ (IsNet /\ pc # "error") => args.input_size % 32 = 0
    /\ \A j \in Blocks : features[j].stride \in {1, 2}

C8_Witness ==
    /\ pc = "error"
    /\ args.input_size = 100
    /\ features = <<>>

\* C10 as claimed: in a built network every gate has a hidden width of at
\* least 1 and at most its channel count.
C10_GateHiddenAtLeastOne ==
    (IsNet /\ pc = "built") =>
        \A j \in Blocks :
            /\ features[j].se.hidden >= 1
            /\ features[j].se.hidden <= features[j].oup

\* the stage of interverted_residual_setting block j (2..18) belongs to
StageOf(j) ==
    CHOOSE k \in 1..7 :
        LET before == [q \in 1..7 |-> IF q < k
                                      THEN interverted_residual_setting[q][3]
                                      ELSE 0]
            sum == before[1] + before[2] + before[3] + before[4] + before[5]
                   + before[6] + before[7]
        IN sum < j - 1 /\ j - 1 <= sum + interverted_residual_setting[k][3]

\* C10 amended: every gate of a built network has hidden width C // 4 for
\* C = int(c * width_mult), the block's output width: 4 * hidden <= C <
\* 4 * hidden + 4, so 0 <= hidden <= C, and the hidden width is at least 1
\* exactly when C >= 4, which is every block once width_mult >= 1/4.  Below
\* that a network can be built whose first gates have hidden width 0.
C10_GateHiddenIsFloorOfQuarter ==
    (IsNet /\ pc = "built") =>
        \A j \in Blocks :
            LET C == features[j].oup
                h == features[j].se.hidden
            IN /\ C = (interverted_residual_setting[StageOf(j)][2] * args.wnum)
                        \div WDen
               /\ 4 * h <= C /\ C < 4 * h + 4
               /\ h >= 0 /\ h <= C
               /\ h >= 1 <=> C >= 4
               /\ 4 * args.wnum >= WDen => h >= 1
               /\ features[j].se.fc[1].inp = C /\ features[j].se.fc[1].oup = h
               /\ features[j].se.fc[3].inp = h /\ features[j].se.fc[3].oup = C

C10_Witness ==
    /\ pc = "built"
    /\ IsNet
    /\ \E j \in Blocks : features[j].se.hidden = 0 /\ features[j].oup > 0


-----------------------------------------------------------------------------
(* Properties: the pretrained loader (SpecLoad) *)

Raising ==
    {"raised_construct", "raised_retrieve", "raised_index", "raised_load"}
AfterLoad == {"raised_load", "return", "done"}
Normalized == {"load"} \cup AfterLoad

\* the key without any marker in it, written without Replace
Unmarked(k) ==
    LET keep == {i \in DOMAIN k : k[i] # Marker}
        nth[j \in 0..Len(k)] ==
            IF j = 0 THEN 0
            ELSE CHOOSE i \in keep :
                    Cardinality({q \in keep : q <= i}) = j
    IN [j \in 1..Cardinality(keep) |-> k[nth[j]]]

\* the value of the last entry of ckpt whose key, with the markers taken out
\* when strip holds, is name
LastValueFor(ckpt, name, strip) ==
    LET hits == {i \in DOMAIN ckpt :
                    (IF strip THEN Unmarked(ckpt[i].key) ELSE ckpt[i].key)
                        = name}
    IN ckpt[CHOOSE i \in hits : \A q \in hits : q <= i].val

\* C3 as claimed: if any key of the checkpoint contains the marker, no key
\* handed to load_state_dict contains it, wherever the marked key stands.
C3_AnyMarkedKeyStripsAll ==
    (lpc \in Normalized /\ largs.pretrained
        /\ \E i \in DOMAIN checkpoint : Marker \in
               {checkpoint[i].key[q] : q \in DOMAIN checkpoint[i].key}) =>
        \A k \in Keys(new_state_dict) :
            Marker \notin {k[q] : q \in DOMAIN k}

\* C3 amended: the first key of the checkpoint decides.  If it contains the
\* marker, every occurrence of the marker is taken out of every key (a key
\* met twice keeps its first place and its last value); if it does not, the
\* mapping is handed over as it is, marked keys included.
C3_FirstKeyDecidesStripping ==
    (lpc \in Normalized /\ largs.pretrained) =>
        IF Marker \in {checkpoint[1].key[q] : q \in DOMAIN checkpoint[1].key}
        THEN /\ Keys(new_state_dict)
                    = {Unmarked(checkpoint[i].key) : i \in DOMAIN checkpoint}
             /\ \A k \in Keys(new_state_dict) :
                    /\ Marker \notin {k[q] : q \in DOMAIN k}
                    /\ Lookup(new_state_dict, k)
                          = LastValueFor(checkpoint, k, TRUE)
             /\ \A a, b \in DOMAIN new_state_dict :
                    a # b => new_state_dict[a].key # new_state_dict[b].key
        ELSE new_state_dict = checkpoint

C3_Witness ==
    /\ lpc = "load"
    /\ Len(checkpoint) = 3
    /\ ~Contains(checkpoint[1].key)
    /\ Contains(checkpoint[2].key)
    /\ new_state_dict = checkpoint

\* the whole of lines 213-222 on a model fresh from construction
FinalOf(ckpt) ==
    IF ckpt = <<>>
    THEN [outcome |-> "raised_index", params |-> InitialParams]
    ELSE LET r == load_state_dict(
                      Model(InitialParams, largs.n_class, largs.last_channel),
                      HandleDataParallel(ckpt))
         IN [outcome |-> IF r.raised THEN "raised_load" ELSE "loaded",
             params |-> r.params]

AllPrefixed(ckpt) == \A i \in DOMAIN ckpt : Head(ckpt[i].key) = Marker
Unprefixed(ckpt) ==
    [i \in DOMAIN ckpt |-> Entry(Tail(ckpt[i].key), ckpt[i].val)]
Outcome == IF lpc \in {"return", "done"} THEN "loaded" ELSE lpc
LoadEnded == largs.pretrained /\ lpc \in {"raised_index"} \cup AfterLoad

\* C2 as claimed: a checkpoint whose keys all start with the marker loads
\* with the same outcome as the checkpoint with the marker taken off the
\* front of every key, and the model it yields has the same parameter
\* values.
C2_PrefixedLoadsLikeUnprefixed ==
    (LoadEnded /\ AllPrefixed(checkpoint)) =>
        /\ Outcome = FinalOf(Unprefixed(checkpoint)).outcome
        /\ Outcome = "loaded" =>
              params = FinalOf(Unprefixed(checkpoint)).params

\* the unprefixed keys hold no marker, or the first of them does
MarkerFreeOrFirstMarked(ckpt) ==
    \/ ckpt = <<>>
    \/ Contains(ckpt[1].key)
    \/ \A i \in DOMAIN ckpt : ~Contains(ckpt[i].key)

\* C2 amended: the same, for checkpoints whose unprefixed keys contain no
\* marker at all or contain one in the first key; the names of the model's
\* own parameters contain none.
C2_PrefixedLoadsLikeMarkerFreeUnprefixed ==
    (LoadEnded /\ AllPrefixed(checkpoint)
        /\ MarkerFreeOrFirstMarked(Unprefixed(checkpoint))) =>
        /\ Outcome = FinalOf(Unprefixed(checkpoint)).outcome
        /\ params = FinalOf(Unprefixed(checkpoint)).params
        /\ \A name \in ParamNames :
              (\E i \in DOMAIN checkpoint :
                    checkpoint[i].key = <<Marker>> \o name)
                 => LET v == LastValueFor(Unprefixed(checkpoint), name,
                                Contains(Unprefixed(checkpoint)[1].key))
                    IN params[name] = IF v.size = SizeOf(name, largs.n_class,
                                                         largs.last_channel)
                                      THEN v ELSE InitialParams[name]

C2_Witness ==
    /\ lpc = "done"
    /\ largs.pretrained
    /\ Len(checkpoint) = Cardinality(StateNames)
    /\ AllPrefixed(checkpoint)
    /\ Keys(Unprefixed(checkpoint)) = StateNames

KeyMismatch == Keys(new_state_dict) # StateNames

=============================================================================
